---- MODULE Spec2Model ----
(***************************************************************************)
(* A model of package jsonschematree (src/pkg/netsuite/netsuite.go):       *)
(* the Schema node, the type-set parser and serializer, BaseType, the      *)
(* explicit-stack Walk and the reference-resolving visitor.                *)
(*                                                                         *)
(* Schema values live in a heap indexed by node number, so that two fields *)
(* holding the same *Schema pointer are two fields holding the same        *)
(* number.  A Properties map is never written through by the package, so a *)
(* map is modelled by its value; a nil map and an empty map behave alike   *)
(* in Walk and are both the empty function.  stackItem.Path is written but *)
(* never read by the package and is not part of the model.                 *)
(***************************************************************************)
EXTENDS Integers, Sequences, FiniteSets, TLC

\* ------------------------------------------------------------------ bounds
\* number of schema nodes below the root in a generated tree
MaxTree == 3
\* number of successive Walk / ResolveReferences calls in one behaviour
MaxWalks == 2
\* the per-walk event counters saturate at this value
Cap == 3

\* ------------------------------------------------------------------- nodes
Nil == 0
Root == 1
TreeNodes == 2..(MaxTree + 1)
\* two nodes outside the tree under the root: the resolver's referent and
\* its child (reference resolution), or the schema a caller adds as Items
ExtraA == MaxTree + 2
ExtraB == MaxTree + 3
Nodes == 1..(MaxTree + 3)

Names == <<"p1", "p2", "p3", "p4", "p5", "p6", "p7", "p8", "p9">>
PropName(n) == Names[n]

TYPE_ARRAY == "array"
TYPE_OBJECT == "object"

EmptyMap == [x \in {} |-> Nil]

RefX == "#/entity"
RefBad == "#/missing"

VARIABLES
  heap,        \* node -> Schema (the fields of struct Schema)
  resolver,    \* the ReferenceResolver: reference string -> node, Nil = error
  walker,      \* the SchemaWalker of the call: "plain" or "resolve"
  stack,       \* Walk's work-stack, top at the end
  pc,          \* position in Walk: idle, loop, range, dispatch, alts, done, error
  properties,  \* the map being ranged over (item.Node.Properties at the pop)
  todo,        \* names of that map not yet iterated
  property,    \* loop variable: the current property name
  schema,      \* loop variable: the current property's schema
  alts,        \* the slice schema.OneOf being ranged over
  alt,         \* index of the next alternative
  err,         \* the error Walk returned: kind and the property it names
  tin,         \* the "type" and "nullable" members of a JSON document
  tset,        \* the Schema.Type built from it, or the error of UnmarshalJSON
  tbase,       \* the result of BaseType() on that schema
  tout,        \* the JSON schemaType.MarshalJSON writes for Schema.Type
  tback,       \* the result of UnmarshalJSON on the serialized schema
  tphase,      \* input, built, based, marshalled, reparsed
  \* history of the current call, kept for the properties below
  walkNo,      \* number of calls started
  visits,      \* node -> number of visitor calls on it
  asProp,      \* node -> number of visitor calls on it as a property schema
  pushes,      \* node -> number of times pushed
  calls,       \* number of Resolve calls
  failed,      \* a Resolve call of this walk returned an error
  lastVisit,   \* node of the latest visitor call
  errNode,     \* the schema whose dispatch raised the shape error
  heap0,       \* the heap when the call started
  prev,        \* how the previous call ended: "none", "done", "error"
  fixed,       \* the node a caller gave Items to after a failed walk
  cycle,       \* a Resolve call returned a schema that reaches the referencing node
  \* two ResolveReferences calls running concurrently
  walks,       \* call -> the locals of its Walk and of its visitor call
  written,     \* call -> the schemas its resolveReference has assigned to
  \* package main: the metadata cache and the NetSuite metadata source
  metadataCache, \* record type -> *Schema (a pointer number), the package variable
  allocated,   \* number of Schema values the responses parsed so far hold
  requests,    \* number of requests sent to NetSuite so far
  metaCalls,   \* number of Metadata calls so far
  lastCall,    \* the latest Metadata call: its argument, result and requests
  returned,    \* record type -> the schema the first Metadata call for it returned
  panicked     \* a Metadata call dereferenced the nil response of a failed request

walkVars == <<stack, pc, properties, todo, property, schema, alts, alt, err>>
histVars == <<walkNo, visits, asProp, pushes, calls, failed, lastVisit, errNode,
              heap0, prev, fixed, cycle>>
typeVars == <<tin, tset, tbase, tout, tback, tphase>>
concVars == <<walks, written>>
metaVars == <<metadataCache, allocated, requests, metaCalls, lastCall, returned, panicked>>
vars == <<heap, resolver, walker, walkVars, histVars, typeVars, concVars, metaVars>>

\* --------------------------------------------------------------- helpers
Bump(c) == IF c < Cap THEN c + 1 ELSE Cap

RECURSIVE SetToSeq(_)
SetToSeq(S) ==
  IF S = {} THEN <<>>
  ELSE LET m == CHOOSE x \in S : \A y \in S : x <= y
       IN <<m>> \o SetToSeq(S \ {m})

SeqRange(s) == {s[i] : i \in 1..Len(s)}

RECURSIVE SelectNotNull(_)
SelectNotNull(t) ==
  IF t = <<>> THEN <<>>
  ELSE IF Head(t) # "null" THEN <<Head(t)>> \o SelectNotNull(Tail(t))
       ELSE SelectNotNull(Tail(t))

\* Schema.BaseType on a type slice
BaseTypeOf(t) ==
  IF Len(t) = 0 THEN ""
  ELSE LET typesWithoutNull == SelectNotNull(t)
       IN IF Len(typesWithoutNull) = 0 THEN "null"
          ELSE IF Len(typesWithoutNull) = 1 THEN typesWithoutNull[1]
          ELSE ""

BaseType(h, n) == BaseTypeOf(h[n].type)

\* the struct Schema
NewSchema(ty, pr, it, fmt, one, id, ref) ==
  [type |-> ty, props |-> pr, items |-> it, format |-> fmt, oneOf |-> one,
   id |-> id, ref |-> ref]

\* PrepareDummySchema(dummyType)
PrepareDummySchema(dummyType) ==
  NewSchema(dummyType, EmptyMap, Nil, "", <<>>, "", "")

\* ---------------------------------------------------------- reachability
\* the sub-schemas a schema holds: Properties values, Items, OneOf elements
Children(h, n) ==
  {h[n].props[k] : k \in DOMAIN h[n].props}
    \cup (IF h[n].items = Nil THEN {} ELSE {h[n].items})
    \cup SeqRange(h[n].oneOf)

RECURSIVE Closure(_, _)
Closure(h, S) ==
  LET T == S \cup UNION {Children(h, n) : n \in S}
  IN IF T = S THEN S ELSE Closure(h, T)

\* every schema reachable from n by one or more edges
Descendants(h, n) == Closure(h, Children(h, n))

\* ------------------------------------------------------ reference resolver
\* ReferenceResolver.Resolve: the referent, or Nil for an error
Resolve(ref) == IF ref \in DOMAIN resolver THEN resolver[ref] ELSE Nil

\* resolveReference clearing Ref before it knows the resolver's answer
resolveReference_ClearsRefFirst(h, s) ==
  LET ref == h[s].ref IN
  IF ref = "" THEN [heap |-> h, ok |-> TRUE, called |-> FALSE]
  ELSE LET refSchema == Resolve(ref)
           cleared == [h EXCEPT ![s].ref = ""]
       IN
       IF refSchema = Nil THEN [heap |-> cleared, ok |-> FALSE, called |-> TRUE]
       ELSE [heap |-> [h EXCEPT ![s] = [@ EXCEPT !.ref = "",
                                                !.id = h[refSchema].id,
                                                !.type = h[refSchema].type,
                                                !.props = h[refSchema].props,
                                                !.items = h[refSchema].items]],
             ok |-> TRUE, called |-> TRUE]

\* resolveReference without the early return for an empty Ref
resolveReference_NoEmptyCheck(h, s) ==
  LET refSchema == Resolve(h[s].ref) IN
  IF refSchema = Nil THEN [heap |-> h, ok |-> FALSE, called |-> TRUE]
  ELSE [heap |-> [h EXCEPT ![s] = [@ EXCEPT !.ref = "",
                                           !.id = h[refSchema].id,
                                           !.type = h[refSchema].type,
                                           !.props = h[refSchema].props,
                                           !.items = h[refSchema].items]],
        ok |-> TRUE, called |-> TRUE]

\* resolveReference copying the referent's Format as well
resolveReference_CopiesFormat(h, s) ==
  LET ref == h[s].ref IN
  IF ref = "" THEN [heap |-> h, ok |-> TRUE, called |-> FALSE]
  ELSE LET refSchema == Resolve(ref) IN
       IF refSchema = Nil THEN [heap |-> h, ok |-> FALSE, called |-> TRUE]
       ELSE [heap |-> [h EXCEPT ![s] = [@ EXCEPT !.ref = "",
                                                !.id = h[refSchema].id,
                                                !.type = h[refSchema].type,
                                                !.props = h[refSchema].props,
                                                !.items = h[refSchema].items,
                                                !.format = h[refSchema].format]],
             ok |-> TRUE, called |-> TRUE]

\* resolveReference leaving the referencing schema's Type as it was
resolveReference_KeepsType(h, s) ==
  LET ref == h[s].ref IN
  IF ref = "" THEN [heap |-> h, ok |-> TRUE, called |-> FALSE]
  ELSE LET refSchema == Resolve(ref) IN
       IF refSchema = Nil THEN [heap |-> h, ok |-> FALSE, called |-> TRUE]
       ELSE [heap |-> [h EXCEPT ![s] = [@ EXCEPT !.ref = "",
                                                !.id = h[refSchema].id,
                                                !.props = h[refSchema].props,
                                                !.items = h[refSchema].items]],
             ok |-> TRUE, called |-> TRUE]

\* Schema.resolveReference: the heap after the call, whether it returned nil,
\* and whether it called the resolver
resolveReference(h, s) ==
  LET ref == h[s].ref IN
  IF ref = "" THEN [heap |-> h, ok |-> TRUE, called |-> FALSE]
  ELSE LET refSchema == Resolve(ref) IN
       IF refSchema = Nil THEN [heap |-> h, ok |-> FALSE, called |-> TRUE]
       ELSE [heap |-> [h EXCEPT ![s] = [@ EXCEPT !.ref = "",
                                                !.id = h[refSchema].id,
                                                !.type = h[refSchema].type,
                                                !.props = h[refSchema].props,
                                                !.items = h[refSchema].items]],
             ok |-> TRUE, called |-> TRUE]

\* SchemaWalker.Walk of the call's walker: referenceResolverWalker, or a
\* visitor that only looks at the schema
WalkerWalk(h, s) ==
  IF walker = "resolve" THEN resolveReference(h, s)
  ELSE [heap |-> h, ok |-> TRUE, called |-> FALSE]

\* --------------------------------------------------------------- the stack
NewStack == <<>>
Empty(st) == Len(st) = 0
Top(st) == st[Len(st)]
\* Pop returning the top without removing it
Pop_KeepsTop(st) == st
Pop(st) == SubSeq(st, 1, Len(st) - 1)
Push(st, n) == Append(st, [Node |-> n])

\* -------------------------------------------------------------------- Walk
NoErr == [kind |-> "", property |-> ""]

\* the history of one visitor call on node s with result v
Visited(s, v, isProp) ==
  /\ visits' = [visits EXCEPT ![s] = Bump(@)]
  /\ asProp' = IF isProp THEN [asProp EXCEPT ![s] = Bump(@)] ELSE asProp
  /\ calls' = IF v.called THEN Bump(calls) ELSE calls
  /\ failed' = (failed \/ ~v.ok)
  /\ lastVisit' = s
  /\ cycle' = (cycle \/ (v.called /\ v.ok /\ s \in Closure(heap, {Resolve(heap[s].ref)})))

NoVisit == UNCHANGED <<visits, asProp, calls, failed, lastVisit, cycle>>

Pushed(S) == pushes' = [n \in Nodes |-> IF n \in S THEN Bump(pushes[n]) ELSE pushes[n]]

\* a call of Walk starts: lines 493-497
StartWalk(w) ==
  /\ pc \in {"idle", "done", "error"}
  /\ walkNo < MaxWalks
  /\ walker' = w
  /\ stack' = Push(NewStack, Root)
  /\ pc' = "loop"
  /\ err' = NoErr
  /\ walkNo' = walkNo + 1
  /\ visits' = [n \in Nodes |-> 0]
  /\ asProp' = [n \in Nodes |-> 0]
  /\ pushes' = [n \in Nodes |-> IF n = Root THEN 1 ELSE 0]
  /\ calls' = 0
  /\ failed' = FALSE
  /\ lastVisit' = Nil
  /\ errNode' = Nil
  /\ heap0' = heap
  /\ prev' = IF pc = "idle" THEN "none" ELSE pc
  /\ UNCHANGED <<heap, resolver, properties, todo, property, schema, alts, alt,
                 fixed, cycle, typeVars, concVars, metaVars>>

\* Walk(walker) with a visitor that does not change the schema
CallWalk == StartWalk("plain")

\* ResolveReferences(resolver)
ResolveReferences == StartWalk("resolve")

\* for !stack.Empty() is false: return nil
ReturnNil ==
  /\ pc = "loop"
  /\ Empty(stack)
  /\ pc' = "done"
  /\ UNCHANGED <<heap, resolver, walker, stack, properties, todo, property, schema,
                 alts, alt, err, histVars, typeVars, concVars, metaVars>>

\* item := stack.Pop(); a node without properties is skipped
PopItem ==
  /\ pc = "loop"
  /\ ~Empty(stack)
  /\ LET item == Top(stack) IN
       /\ stack' = Pop(stack)
       /\ IF DOMAIN heap[item.Node].props = {}
          THEN pc' = "loop" /\ UNCHANGED <<properties, todo>>
          ELSE /\ pc' = "range"
               /\ properties' = heap[item.Node].props
               /\ todo' = DOMAIN heap[item.Node].props
  /\ UNCHANGED <<heap, resolver, walker, property, schema, alts, alt, err,
                 histVars, typeVars, concVars, metaVars>>

\* the range over properties is exhausted
RangeDone ==
  /\ pc = "range"
  /\ todo = {}
  /\ pc' = "loop"
  /\ UNCHANGED <<heap, resolver, walker, stack, properties, todo, property, schema,
                 alts, alt, err, histVars, typeVars, concVars, metaVars>>

\* the next property of the range, in any order, and walker.Walk(schema)
VisitProperty ==
  /\ pc = "range"
  /\ \E p \in todo :
       LET s == properties[p]
           v == WalkerWalk(heap, s)
       IN /\ property' = p
          /\ schema' = s
          /\ todo' = todo \ {p}
          /\ heap' = v.heap
          /\ Visited(s, v, TRUE)
          /\ IF v.ok THEN pc' = "dispatch" /\ err' = err
             ELSE pc' = "error" /\ err' = [kind |-> "resolve", property |-> ""]
  /\ UNCHANGED <<resolver, walker, stack, properties, alts, alt, walkNo, pushes,
                 errNode, heap0, prev, fixed, typeVars, concVars, metaVars>>

\* Walk skipping an array property without items instead of failing
WalkDispatch_SkipsMissingItems(h, s) ==
  IF Len(h[s].oneOf) > 0 THEN "oneOf"
  ELSE LET propertyType == BaseType(h, s) IN
       IF propertyType = "" THEN "typeError"
       ELSE IF propertyType = TYPE_ARRAY
            THEN (IF h[s].items = Nil THEN "scalar" ELSE "array")
       ELSE IF propertyType = TYPE_OBJECT THEN "object"
       ELSE "scalar"

\* Walk checking the property's base type before it looks at OneOf
WalkDispatch_TypeFirst(h, s) ==
  LET propertyType == BaseType(h, s) IN
  IF propertyType = "" THEN "typeError"
  ELSE IF Len(h[s].oneOf) > 0 THEN "oneOf"
  ELSE IF propertyType = TYPE_ARRAY
       THEN (IF h[s].items = Nil THEN "itemsError" ELSE "array")
  ELSE IF propertyType = TYPE_OBJECT THEN "object"
  ELSE "scalar"

\* what Walk does with a property's schema after the visitor returned:
\* lines 515 and 533-567
WalkDispatch(h, s) ==
  IF Len(h[s].oneOf) > 0 THEN "oneOf"
  ELSE LET propertyType == BaseType(h, s) IN
       IF propertyType = "" THEN "typeError"
       ELSE IF propertyType = TYPE_ARRAY
            THEN (IF h[s].items = Nil THEN "itemsError" ELSE "array")
       ELSE IF propertyType = TYPE_OBJECT THEN "object"
       ELSE "scalar"

Dispatch ==
  /\ pc = "dispatch"
  /\ LET d == WalkDispatch(heap, schema) IN
       CASE d = "oneOf" ->
              /\ alts' = heap[schema].oneOf
              /\ alt' = 1
              /\ pc' = "alts"
              /\ NoVisit
              /\ UNCHANGED <<heap, stack, err, pushes, errNode>>
         [] d = "typeError" ->
              /\ pc' = "error"
              /\ err' = [kind |-> "type", property |-> property]
              /\ errNode' = schema
              /\ NoVisit
              /\ UNCHANGED <<heap, stack, alts, alt, pushes>>
         [] d = "itemsError" ->
              /\ pc' = "error"
              /\ err' = [kind |-> "items", property |-> property]
              /\ errNode' = schema
              /\ NoVisit
              /\ UNCHANGED <<heap, stack, alts, alt, pushes>>
         [] d = "array" ->
              LET items == heap[schema].items
                  v == WalkerWalk(heap, items)
              IN /\ heap' = v.heap
                 /\ Visited(items, v, FALSE)
                 /\ IF v.ok
                    THEN /\ stack' = Push(stack, items)
                         /\ Pushed({items})
                         /\ pc' = "range"
                         /\ err' = err
                    ELSE /\ pc' = "error"
                         /\ err' = [kind |-> "resolve", property |-> ""]
                         /\ UNCHANGED <<stack, pushes>>
                 /\ UNCHANGED <<alts, alt, errNode>>
         [] d = "object" ->
              /\ stack' = Push(stack, schema)
              /\ Pushed({schema})
              /\ pc' = "range"
              /\ NoVisit
              /\ UNCHANGED <<heap, alts, alt, err, errNode>>
         [] OTHER ->
              /\ pc' = "range"
              /\ NoVisit
              /\ UNCHANGED <<heap, stack, alts, alt, err, pushes, errNode>>
  /\ UNCHANGED <<resolver, walker, properties, todo, property, schema, walkNo,
                 heap0, prev, fixed, typeVars, concVars, metaVars>>

\* one iteration of the range over schema.OneOf: visit, then push
VisitAlternative ==
  /\ pc = "alts"
  /\ alt <= Len(alts)
  /\ LET alternative == alts[alt]
         v == WalkerWalk(heap, alternative)
     IN /\ heap' = v.heap
        /\ Visited(alternative, v, FALSE)
        /\ IF v.ok
           THEN /\ stack' = Push(stack, alternative)
                /\ Pushed({alternative})
                /\ alt' = alt + 1
                /\ pc' = "alts"
                /\ err' = err
           ELSE /\ pc' = "error"
                /\ err' = [kind |-> "resolve", property |-> ""]
                /\ UNCHANGED <<stack, pushes, alt>>
  /\ UNCHANGED <<resolver, walker, properties, todo, property, schema, alts,
                 walkNo, errNode, heap0, prev, fixed, typeVars, concVars, metaVars>>

\* the range over schema.OneOf is exhausted: continue with the next property
AltsDone ==
  /\ pc = "alts"
  /\ alt > Len(alts)
  /\ pc' = "range"
  /\ UNCHANGED <<heap, resolver, walker, stack, properties, todo, property, schema,
                 alts, alt, err, histVars, typeVars, concVars, metaVars>>

WalkStep ==
  \/ ReturnNil
  \/ PopItem
  \/ RangeDone
  \/ VisitProperty
  \/ Dispatch
  \/ VisitAlternative
  \/ AltsDone

\* a caller gives Items to the array property a failed walk named
\* (Schema.Items is an exported field), before walking the tree again
AddItems ==
  /\ pc = "error"
  /\ err.kind = "items"
  /\ fixed = Nil
  /\ \E ty \in {<<"string">>, <<"object">>} :
       heap' = [heap EXCEPT ![errNode].items = ExtraA,
                            ![ExtraA] = PrepareDummySchema(ty)]
  /\ fixed' = errNode
  /\ UNCHANGED <<resolver, walker, walkVars, walkNo, visits, asProp, pushes, calls,
                 failed, lastVisit, errNode, heap0, prev, cycle, typeVars, concVars, metaVars>>

\* ------------------------------------------------------- initial schemas
Kinds == {"prop", "items", "oneOf"}

\* the parent of every tree node; nodes are numbered parents first
ParentVecs ==
  {p \in [TreeNodes -> Nodes] :
     \A i \in TreeNodes : p[i] < i /\ (i > 2 => p[i - 1] <= p[i])}

\* the field of the parent that holds each tree node.  The root holds its
\* children as properties (Walk reads no other field of the root), and a
\* schema has one Items
KindVecs(p) ==
  {k \in [TreeNodes -> Kinds] :
     \A i \in TreeNodes :
       /\ p[i] = Root => k[i] = "prop"
       /\ \A j \in TreeNodes :
            (j < i /\ p[j] = p[i] /\ k[i] = "items") => k[j] # "items"}

Kids(p, k, n, kind) == {c \in TreeNodes : p[c] = n /\ k[c] = kind}

\* the schema of tree node n as a JSON document of that shape parses
TreeSchema(p, k, ty, rf, n) ==
  LET ps == Kids(p, k, n, "prop")
      is == Kids(p, k, n, "items")
  IN NewSchema(ty[n],
               [nm \in {PropName(c) : c \in ps} |->
                  CHOOSE c \in ps : PropName(c) = nm],
               IF is = {} THEN Nil ELSE CHOOSE c \in is : TRUE,
               "",
               SetToSeq(Kids(p, k, n, "oneOf")),
               "",
               rf[n])

NoHistory ==
  /\ walkNo = 0
  /\ visits = [n \in Nodes |-> 0]
  /\ asProp = [n \in Nodes |-> 0]
  /\ pushes = [n \in Nodes |-> 0]
  /\ calls = 0
  /\ failed = FALSE
  /\ lastVisit = Nil
  /\ errNode = Nil
  /\ heap0 = heap
  /\ prev = "none"
  /\ fixed = Nil
  /\ cycle = FALSE

NoWalk ==
  /\ walker = "plain"
  /\ stack = NewStack
  /\ pc = "idle"
  /\ properties = EmptyMap
  /\ todo = {}
  /\ property = ""
  /\ schema = Nil
  /\ alts = <<>>
  /\ alt = 1
  /\ err = NoErr

NoTypes ==
  /\ tin = [type |-> [k |-> "absent"], nullable |-> [k |-> "absent"]]
  /\ tset = [ok |-> TRUE, type |-> <<>>]
  /\ tbase = ""
  /\ tout = [k |-> "absent"]
  /\ tback = [ok |-> TRUE, type |-> <<>>]
  /\ tphase = "none"

\* no concurrent calls
NoConc ==
  /\ walks = <<>>
  /\ written = <<>>

\* no Metadata call
NoMeta ==
  /\ metadataCache = EmptyMap
  /\ allocated = 0
  /\ requests = 0
  /\ metaCalls = 0
  /\ lastCall = [recordType |-> "", result |-> Nil, requests |-> 0, repeat |-> FALSE]
  /\ returned = EmptyMap
  /\ panicked = FALSE

\* the type sets of the schemas walked with a plain visitor
WalkTypes == {<<>>, <<"string">>, <<"object">>, <<"array">>, <<"string", "number">>}

\* a parsed tree without references, the root an object
InitWalk ==
  /\ \E p \in ParentVecs : \E k \in KindVecs(p) : \E ty \in [TreeNodes -> WalkTypes] :
       heap = [n \in Nodes |->
                 IF n = Root
                 THEN TreeSchema(p, k, [x \in Nodes |-> <<"object">>],
                                 [x \in Nodes |-> ""], Root)
                 ELSE IF n \in TreeNodes
                 THEN TreeSchema(p, k, ty, [x \in Nodes |-> ""], n)
                 ELSE PrepareDummySchema(<<>>)]
  /\ resolver = [r \in {} |-> Nil]
  /\ NoWalk
  /\ NoHistory
  /\ NoTypes
  /\ NoConc
  /\ NoMeta

NextWalk == CallWalk \/ AddItems \/ WalkStep

SpecWalk == InitWalk /\ [][NextWalk]_vars

\* ---------------------------------------- initial schemas with references
\* the type a schema document of that shape declares
ShapeType(p, k, n) ==
  IF Kids(p, k, n, "prop") # {} THEN <<"object">>
  ELSE IF Kids(p, k, n, "items") # {} THEN <<"array">>
  ELSE IF Kids(p, k, n, "oneOf") # {} THEN <<>>
  ELSE <<"string">>

\* the resolver's schema for RefX and the sub-schema it may hold: a string,
\* a schema without a type, an object with a string property, an array of
\* strings, or an object with a property that refers to RefX again
Referents ==
  { <<NewSchema(<<"string">>, EmptyMap, Nil, "date-time", <<>>, "entity", ""),
      PrepareDummySchema(<<"string">>)>>,
    <<NewSchema(<<>>, EmptyMap, Nil, "date-time", <<>>, "entity", ""),
      PrepareDummySchema(<<"string">>)>>,
    <<NewSchema(<<"object">>, [nm \in {PropName(ExtraB)} |-> ExtraB], Nil,
                "date-time", <<>>, "entity", ""),
      PrepareDummySchema(<<"string">>)>>,
    <<NewSchema(<<"array">>, EmptyMap, ExtraB, "date-time", <<>>, "entity", ""),
      PrepareDummySchema(<<"string">>)>>,
    <<NewSchema(<<"object">>, [nm \in {PropName(ExtraB)} |-> ExtraB], Nil,
                "date-time", <<>>, "entity", ""),
      NewSchema(<<>>, EmptyMap, Nil, "", <<>>, "", RefX)>> }

\* the referent whose property is a reference the resolver fails on
FailingReferent ==
  <<NewSchema(<<"object">>, [nm \in {PropName(ExtraB)} |-> ExtraB], Nil,
              "date-time", <<>>, "entity", ""),
    NewSchema(<<>>, EmptyMap, Nil, "", <<>>, "", RefBad)>>

\* a parsed tree in which any schema may be a reference out of refs, and a
\* resolver that answers RefX with one of referents and fails for RefBad
InitRefs(refs, referents) ==
  /\ \E p \in ParentVecs : \E k \in KindVecs(p) :
     \E rf \in [TreeNodes -> {""} \cup refs] : \E r \in referents :
       heap = [n \in Nodes |->
                 IF n = Root
                 THEN TreeSchema(p, k, [x \in Nodes |-> <<"object">>],
                                 [x \in Nodes |-> ""], Root)
                 ELSE IF n \in TreeNodes
                 THEN TreeSchema(p, k,
                                 [x \in TreeNodes |->
                                    IF rf[x] = "" THEN ShapeType(p, k, x) ELSE <<>>],
                                 rf, n)
                 ELSE IF n = ExtraA THEN r[1]
                 ELSE r[2]]
  /\ resolver = [r \in {RefX, RefBad} |-> IF r = RefX THEN ExtraA ELSE Nil]
  /\ NoWalk
  /\ NoHistory
  /\ NoTypes
  /\ NoConc
  /\ NoMeta

InitResolve == InitRefs({RefX, RefBad}, Referents)

NextResolve == ResolveReferences \/ WalkStep

SpecResolve == InitResolve /\ [][NextResolve]_vars

\* ------------------------------------------------- type sets and JSON
\* A JSON value is a record: [k |-> "string", v |-> s], [k |-> "array",
\* v |-> <<JSON values>>], [k |-> "number"], [k |-> "bool", v |-> b],
\* [k |-> "null"]; [k |-> "absent"] stands for a member the document lacks.
JString(s) == [k |-> "string", v |-> s]
JArray(a) == [k |-> "array", v |-> a]
JStrings(t) == JArray([i \in 1..Len(t) |-> JString(t[i])])

\* the dynamic type of the value json.Unmarshal stores into an interface{}
DecodedType(j) ==
  CASE j.k = "string" -> "string"
    [] j.k = "array" -> "[]interface {}"
    [] j.k = "number" -> "float64"
    [] j.k = "bool" -> "bool"
    [] OTHER -> "nil"

\* the orders in which a range over a map with these keys can list them
RECURSIVE Orders(_)
Orders(S) ==
  IF S = {} THEN {<<>>}
  ELSE UNION {{<<x>> \o t : t \in Orders(S \ {x})} : x \in S}

\* Schema.UnmarshalJSON, lines 324-355: the set of type tags the document
\* declares, or an error
TypeSetOf(doc) ==
  LET propertyType == DecodedType(doc.type)
      fromType ==
        IF doc.type.k = "absent" THEN [ok |-> TRUE, set |-> {}]
        ELSE IF propertyType = "[]string"
        THEN [ok |-> TRUE, set |-> {doc.type.v[i].v : i \in 1..Len(doc.type.v)}]
        ELSE IF propertyType = "string" THEN [ok |-> TRUE, set |-> {doc.type.v}]
        ELSE [ok |-> FALSE, set |-> {}]
      nullable == doc.nullable.k = "bool" /\ doc.nullable.v
  IN IF ~fromType.ok THEN fromType
     ELSE IF doc.nullable.k \notin {"absent", "bool", "null"}
     THEN [ok |-> FALSE, set |-> {}]
     ELSE IF nullable THEN [ok |-> TRUE, set |-> fromType.set \cup {"null"}]
     ELSE fromType

\* the Schema.Type values UnmarshalJSON can leave for a document (lines
\* 357-361 list the set in map order), or the error
UnmarshalJSON(doc) ==
  LET parsed == TypeSetOf(doc) IN
  IF ~parsed.ok THEN {[ok |-> FALSE, type |-> <<>>]}
  ELSE {[ok |-> TRUE, type |-> t] : t \in Orders(parsed.set)}

\* schemaType.MarshalJSON
MarshalJSON(t) == IF Len(t) = 1 THEN JString(t[1]) ELSE JStrings(t)

\* json.Marshal of the Schema: "type" is always written, "nullable" never
MarshalSchema(t) == [type |-> MarshalJSON(t), nullable |-> [k |-> "absent"]]

Tags == {"string", "number", "null"}
MaxTypes == 2
TagSeqs == UNION {[1..n -> Tags] : n \in 0..MaxTypes}
TypeInputs ==
  {[k |-> "absent"], [k |-> "null"], [k |-> "number"]}
    \cup {JString(t) : t \in Tags}
    \cup {JStrings(t) : t \in TagSeqs}
NullableInputs == {[k |-> "absent"], [k |-> "bool", v |-> TRUE], [k |-> "bool", v |-> FALSE]}

InitType ==
  /\ tin \in [type : TypeInputs, nullable : NullableInputs]
  /\ tset = [ok |-> TRUE, type |-> <<>>]
  /\ tbase = ""
  /\ tout = [k |-> "absent"]
  /\ tback = [ok |-> TRUE, type |-> <<>>]
  /\ tphase = "input"
  /\ heap = [n \in Nodes |-> PrepareDummySchema(<<>>)]
  /\ resolver = [r \in {} |-> Nil]
  /\ NoWalk
  /\ NoHistory
  /\ NoConc
  /\ NoMeta

\* json.Unmarshal(document, &schema)
Parse ==
  /\ tphase = "input"
  /\ tset' \in UnmarshalJSON(tin)
  /\ tphase' = "built"
  /\ UNCHANGED <<tin, tbase, tout, tback, heap, resolver, walker, walkVars, histVars,
                 concVars, metaVars>>

\* PrepareDummySchema(dummyType) instead of a parse
Prepare ==
  /\ tphase = "input"
  /\ tin.type.k = "absent" /\ tin.nullable.k = "absent"
  /\ \E dummyType \in TagSeqs :
       tset' = [ok |-> TRUE, type |-> PrepareDummySchema(dummyType).type]
  /\ tphase' = "built"
  /\ UNCHANGED <<tin, tbase, tout, tback, heap, resolver, walker, walkVars, histVars,
                 concVars, metaVars>>

\* schema.BaseType()
CallBaseType ==
  /\ tphase = "built"
  /\ tset.ok
  /\ tbase' = BaseTypeOf(tset.type)
  /\ tphase' = "based"
  /\ UNCHANGED <<tin, tset, tout, tback, heap, resolver, walker, walkVars, histVars,
                 concVars, metaVars>>

\* json.Marshal(schema)
Marshal ==
  /\ tphase = "based"
  /\ tout' = MarshalSchema(tset.type).type
  /\ tphase' = "marshalled"
  /\ UNCHANGED <<tin, tset, tbase, tback, heap, resolver, walker, walkVars, histVars,
                 concVars, metaVars>>

\* json.Unmarshal of the serialized schema
Reparse ==
  /\ tphase = "marshalled"
  /\ tback' \in UnmarshalJSON(MarshalSchema(tset.type))
  /\ tphase' = "reparsed"
  /\ UNCHANGED <<tin, tset, tbase, tout, heap, resolver, walker, walkVars, histVars,
                 concVars, metaVars>>

NextType == Parse \/ Prepare \/ CallBaseType \/ Marshal \/ Reparse

SpecType == InitType /\ [][NextType]_vars

\* one call of Walk, with either walker; the references of the tree are
\* known to the resolver, and a referent may hold one that is not.  The call
\* runs on: a started Walk takes its next step
InitOneCall == InitRefs({RefX}, Referents \cup {FailingReferent})

FirstCall == walkNo = 0 /\ (CallWalk \/ ResolveReferences)

NextOneCall == FirstCall \/ WalkStep

SpecOneCallFair == InitOneCall /\ [][NextOneCall]_vars /\ WF_vars(WalkStep)

\* ------------------------------------ two concurrent ResolveReferences calls
\* Two goroutines call ResolveReferences on two roots with one resolver.
\* Walk's locals are per call; the schemas and the resolver are shared.  A
\* step is one statement group of Walk; resolveReference is three steps
\* (the read of s.Ref with the Resolve call, the write of s.Ref, the writes
\* of ID, Type, Properties and Items), so that the calls interleave inside it.
RefY == "#/address"
Calls == {"a", "b"}

RootA == Root
RootB == Root + 1
\* the property of each root, and the alternative RootA's property may hold
PropA == Root + 2
PropB == Root + 3
AltA == Root + 4
\* the resolver's schemas: RefX's, the sub-schema it holds, and RefY's
HeldX == Root + 5
HeldXSub == Root + 6
HeldY == Root + 7
ConcNodes == RootA..HeldY

RootOf(c) == IF c = "a" THEN RootA ELSE RootB

IdleWalk ==
  [pc |-> "idle", stack |-> NewStack, properties |-> EmptyMap, todo |-> {},
   property |-> "", schema |-> Nil, alts |-> <<>>, alt |-> 1,
   site |-> "", s |-> Nil, refSchema |-> Nil]

\* a schema that is a reference (no type) or a string
Leaf(ref) ==
  NewSchema(IF ref = "" THEN <<"string">> ELSE <<>>, EmptyMap, Nil, "", <<>>, "", ref)

\* the shapes of RefX's schema: an object with a property, an array with
\* items, an array without items
HeldShapes == {"object", "array", "arrayNoItems"}

InitConc ==
  /\ \E fa \in {"", RefX, RefY, RefBad} :
     \E fb \in {"", RefX, RefY, RefBad} :
     \E fs \in {"", RefY, RefBad} :
     \E union \in BOOLEAN :
     \E shape \in HeldShapes :
     \E ty \in {<<"string">>, <<>>} :
       heap = [n \in ConcNodes |->
                 CASE n = RootA ->
                        NewSchema(<<"object">>, [nm \in {PropName(PropA)} |-> PropA],
                                  Nil, "", <<>>, "", "")
                   [] n = RootB ->
                        NewSchema(<<"object">>, [nm \in {PropName(PropB)} |-> PropB],
                                  Nil, "", <<>>, "", "")
                   [] n = PropA ->
                        IF union
                        THEN NewSchema(<<>>, EmptyMap, Nil, "", <<AltA>>, "", "")
                        ELSE Leaf(fa)
                   [] n = PropB -> Leaf(fb)
                   [] n = AltA -> IF union THEN Leaf(fa) ELSE Leaf("")
                   [] n = HeldX ->
                        IF shape = "object"
                        THEN NewSchema(<<"object">>,
                                       [nm \in {PropName(HeldXSub)} |-> HeldXSub],
                                       Nil, "", <<>>, "entity", "")
                        ELSE NewSchema(<<"array">>, EmptyMap,
                                       IF shape = "array" THEN HeldXSub ELSE Nil,
                                       "", <<>>, "entity", "")
                   [] n = HeldXSub -> Leaf(fs)
                   [] OTHER -> NewSchema(ty, EmptyMap, Nil, "", <<>>, "address", "")]
  /\ resolver = [r \in {RefX, RefY, RefBad} |->
                   IF r = RefX THEN HeldX ELSE IF r = RefY THEN HeldY ELSE Nil]
  /\ walks = [c \in Calls |-> IdleWalk]
  /\ written = [c \in Calls |-> {}]
  /\ NoWalk
  /\ NoHistory
  /\ NoTypes
  /\ NoMeta

ConcUnchanged == UNCHANGED <<resolver, walker, walkVars, histVars, typeVars, metaVars>>

\* ResolveReferences(resolver): Walk starts, lines 493-497
ConcStartWalk(c) ==
  /\ walks[c].pc = "idle"
  /\ walks' = [walks EXCEPT ![c].pc = "loop",
                            ![c].stack = Push(NewStack, RootOf(c))]
  /\ UNCHANGED <<heap, written>>
  /\ ConcUnchanged

\* for !stack.Empty() is false: return nil
ConcReturnNil(c) ==
  /\ walks[c].pc = "loop"
  /\ Empty(walks[c].stack)
  /\ walks' = [walks EXCEPT ![c].pc = "done"]
  /\ UNCHANGED <<heap, written>>
  /\ ConcUnchanged

\* item := stack.Pop() and the start of the range over its properties
ConcPopItem(c) ==
  /\ walks[c].pc = "loop"
  /\ ~Empty(walks[c].stack)
  /\ LET item == Top(walks[c].stack) IN
       walks' = [walks EXCEPT
                   ![c].stack = Pop(@),
                   ![c].pc = IF DOMAIN heap[item.Node].props = {} THEN "loop" ELSE "range",
                   ![c].properties = IF DOMAIN heap[item.Node].props = {}
                                     THEN @ ELSE heap[item.Node].props,
                   ![c].todo = IF DOMAIN heap[item.Node].props = {}
                               THEN @ ELSE DOMAIN heap[item.Node].props]
  /\ UNCHANGED <<heap, written>>
  /\ ConcUnchanged

ConcRangeDone(c) ==
  /\ walks[c].pc = "range"
  /\ walks[c].todo = {}
  /\ walks' = [walks EXCEPT ![c].pc = "loop"]
  /\ UNCHANGED <<heap, written>>
  /\ ConcUnchanged

\* the next property of the range: walker.Walk(schema) is called
ConcNextProperty(c) ==
  /\ walks[c].pc = "range"
  /\ \E p \in walks[c].todo :
       walks' = [walks EXCEPT ![c].property = p,
                              ![c].schema = walks[c].properties[p],
                              ![c].todo = @ \ {p},
                              ![c].site = "property",
                              ![c].s = walks[c].properties[p],
                              ![c].pc = "visit"]
  /\ UNCHANGED <<heap, written>>
  /\ ConcUnchanged

\* Walk after walker.Walk returned nil at one of its three call sites
AfterVisit(w) ==
  IF w.site = "property" THEN [w EXCEPT !.pc = "dispatch"]
  ELSE IF w.site = "items" THEN [w EXCEPT !.pc = "range", !.stack = Push(@, w.s)]
  ELSE [w EXCEPT !.pc = "alts", !.stack = Push(@, w.s), !.alt = @ + 1]

\* resolveReference lines 466-479: the read of s.Ref and the Resolve call
ConcResolve(c) ==
  /\ walks[c].pc = "visit"
  /\ LET w == walks[c]
         ref == heap[w.s].ref
     IN IF ref = "" THEN walks' = [walks EXCEPT ![c] = AfterVisit(w)]
        ELSE IF Resolve(ref) = Nil THEN walks' = [walks EXCEPT ![c].pc = "error"]
        ELSE walks' = [walks EXCEPT ![c].pc = "clear", ![c].refSchema = Resolve(ref)]
  /\ UNCHANGED <<heap, written>>
  /\ ConcUnchanged

\* resolveReference line 481: s.Ref = ""
ConcClearRef(c) ==
  /\ walks[c].pc = "clear"
  /\ heap' = [heap EXCEPT ![walks[c].s].ref = ""]
  /\ written' = [written EXCEPT ![c] = @ \cup {walks[c].s}]
  /\ walks' = [walks EXCEPT ![c].pc = "copy"]
  /\ ConcUnchanged

\* resolveReference lines 482-486: the four fields of refSchema are copied
ConcCopy(c) ==
  /\ walks[c].pc = "copy"
  /\ LET w == walks[c] IN
       /\ heap' = [heap EXCEPT ![w.s] = [@ EXCEPT !.id = heap[w.refSchema].id,
                                                  !.type = heap[w.refSchema].type,
                                                  !.props = heap[w.refSchema].props,
                                                  !.items = heap[w.refSchema].items]]
       /\ walks' = [walks EXCEPT ![c] = AfterVisit(w)]
  /\ UNCHANGED written
  /\ ConcUnchanged

\* lines 515 and 533-567 on the property's schema
ConcDispatch(c) ==
  /\ walks[c].pc = "dispatch"
  /\ LET w == walks[c]
         d == WalkDispatch(heap, w.schema)
     IN walks' = [walks EXCEPT ![c] =
          CASE d = "oneOf" -> [w EXCEPT !.alts = heap[w.schema].oneOf, !.alt = 1,
                                        !.pc = "alts"]
            [] d \in {"typeError", "itemsError"} -> [w EXCEPT !.pc = "error"]
            [] d = "array" -> [w EXCEPT !.site = "items", !.s = heap[w.schema].items,
                                        !.pc = "visit"]
            [] d = "object" -> [w EXCEPT !.stack = Push(@, w.schema), !.pc = "range"]
            [] OTHER -> [w EXCEPT !.pc = "range"]]
  /\ UNCHANGED <<heap, written>>
  /\ ConcUnchanged

\* the next alternative of schema.OneOf: walker.Walk(alternative) is called
ConcNextAlternative(c) ==
  /\ walks[c].pc = "alts"
  /\ walks[c].alt <= Len(walks[c].alts)
  /\ walks' = [walks EXCEPT ![c].site = "alternative",
                            ![c].s = walks[c].alts[walks[c].alt],
                            ![c].pc = "visit"]
  /\ UNCHANGED <<heap, written>>
  /\ ConcUnchanged

ConcAltsDone(c) ==
  /\ walks[c].pc = "alts"
  /\ walks[c].alt > Len(walks[c].alts)
  /\ walks' = [walks EXCEPT ![c].pc = "range"]
  /\ UNCHANGED <<heap, written>>
  /\ ConcUnchanged

NextConc ==
  \E c \in Calls :
    \/ ConcStartWalk(c)
    \/ ConcReturnNil(c)
    \/ ConcPopItem(c)
    \/ ConcRangeDone(c)
    \/ ConcNextProperty(c)
    \/ ConcResolve(c)
    \/ ConcClearRef(c)
    \/ ConcCopy(c)
    \/ ConcDispatch(c)
    \/ ConcNextAlternative(c)
    \/ ConcAltsDone(c)

SpecConc == InitConc /\ [][NextConc]_vars

\* ------------------------------------------------ Client.Metadata and its cache
\* A *Schema a response holds is a pointer number; every parsed response
\* holds Schema values of its own.  A response of the metadata catalog is the
\* set of names under components.schemas; the request may also fail, and so
\* may the SuiteQL query of schemaForSchemaless (or return no row).
RecordTypes == <<"customer", "invoice", "salesorder">>
RecordType == SeqRange(RecordTypes)

\* number of Metadata calls in one behaviour
MaxMetaCalls == 3

IndexOf(recordType) == CHOOSE i \in 1..Len(RecordTypes) : RecordTypes[i] = recordType

\* parsedBody.Components.Schemas of a response with these names, parsed when
\* base pointers had been handed out
ParsedSchemas(names, base) == [r \in names |-> base + IndexOf(r)]

\* the responses of GET /record/v1/metadata-catalog/<recordType>
CatalogResponses ==
  {[ok |-> FALSE, names |-> {}]} \cup {[ok |-> TRUE, names |-> S] : S \in SUBSET RecordType}

\* the outcomes of getSingleRow: a row, no row, a failed request
RowResponses == {"row", "empty", "error"}

\* the loop of lines 120-122: every schema of the response is stored
StoreAll(cache, schemas) ==
  [r \in DOMAIN cache \cup DOMAIN schemas |->
     IF r \in DOMAIN schemas THEN schemas[r] ELSE cache[r]]

\* the history of a Metadata call that returned result after n requests
MetadataReturned(recordType, result, n) ==
  /\ lastCall' = [recordType |-> recordType, result |-> result, requests |-> n,
                  repeat |-> recordType \in DOMAIN returned]
  /\ returned' = IF recordType \in DOMAIN returned THEN returned
                 ELSE [r \in DOMAIN returned \cup {recordType} |->
                         IF r = recordType THEN result ELSE returned[r]]
  /\ requests' = requests + n
  /\ panicked' = FALSE

\* the history of a Metadata call that panicked after n requests
MetadataPanicked(recordType, n) ==
  /\ lastCall' = [recordType |-> recordType, result |-> Nil, requests |-> n,
                  repeat |-> recordType \in DOMAIN returned]
  /\ requests' = requests + n
  /\ panicked' = TRUE
  /\ UNCHANGED <<metadataCache, allocated, returned>>

\* Client.Metadata(recordType, includedFields)
Metadata(recordType) ==
  /\ ~panicked
  /\ metaCalls < MaxMetaCalls
  /\ metaCalls' = metaCalls + 1
  /\ IF recordType \in DOMAIN metadataCache
     THEN /\ MetadataReturned(recordType, metadataCache[recordType], 0)
          /\ UNCHANGED <<metadataCache, allocated>>
     ELSE \E catalog \in CatalogResponses : \E row \in RowResponses :
            IF ~catalog.ok
            THEN \* parsedBody is nil: line 116 dereferences it
                 MetadataPanicked(recordType, 1)
            ELSE IF recordType \in catalog.names
            THEN LET schemas == ParsedSchemas(catalog.names, allocated) IN
                 /\ metadataCache' = StoreAll(metadataCache, schemas)
                 /\ allocated' = allocated + Len(RecordTypes)
                 /\ MetadataReturned(recordType, schemas[recordType], 1)
            ELSE IF row # "row"
            THEN \* schemaForSchemaless reads singleRow.Items[0], line 250
                 MetadataPanicked(recordType, 2)
            ELSE LET schemas == ParsedSchemas({recordType}, allocated) IN
                 /\ metadataCache' = StoreAll(metadataCache, schemas)
                 /\ allocated' = allocated + Len(RecordTypes)
                 /\ MetadataReturned(recordType, schemas[recordType], 2)
  /\ UNCHANGED <<heap, resolver, walker, walkVars, histVars, typeVars, concVars>>

InitMeta ==
  /\ heap = [n \in Nodes |-> PrepareDummySchema(<<>>)]
  /\ resolver = [r \in {} |-> Nil]
  /\ NoWalk
  /\ NoHistory
  /\ NoTypes
  /\ NoConc
  /\ NoMeta

NextMeta == \E recordType \in RecordType : Metadata(recordType)

SpecMeta == InitMeta /\ [][NextMeta]_vars

\* ================================================================ claims
Finished == pc \in {"done", "error"}
Walking == pc \in {"loop", "range", "dispatch", "alts"}

\* no schema of the tree under the root of heap h is a reference
RefFree(h) == \A n \in {Root} \cup Descendants(h, Root) : h[n].ref = ""

\* C1: after a successful ResolveReferences no schema reachable from the
\* root through properties, items or oneOf has a non-empty ref.
C1_ReferenceFree ==
  (walker = "resolve" /\ pc = "done") =>
    \A n \in Descendants(heap, Root) : heap[n].ref = ""

\* C2: once a Resolve call of a ResolveReferences call has failed, the call
\* has returned an error and nothing more happens in it: the failing call
\* leaves every schema (the referencing one with its ref) and the stack as
\* they were, and no later step of that call visits, resolves, pushes or
\* writes a schema.
C2_FailureAborts ==
  [][(failed' /\ walkNo' = walkNo) =>
       /\ heap' = heap
       /\ stack' = stack
       /\ pushes' = pushes
       /\ pc' = "error"
       /\ err'.kind = "resolve"
       /\ heap'[lastVisit'].ref # ""
       /\ failed => (visits' = visits /\ calls' = calls /\ lastVisit' = lastVisit)]_vars

\* C2 witness: a Resolve call failed after an earlier one had succeeded and
\* while schemas were still waiting on the stack
C2_Witness ==
  /\ failed /\ pc = "error" /\ calls >= 2 /\ stack # <<>>
  /\ heap # heap0

\* every schema that holds properties declares "object" and every schema
\* that holds items declares "array"
Conforming(h) ==
  \A n \in Nodes :
    /\ DOMAIN h[n].props # {} => BaseTypeOf(h[n].type) = TYPE_OBJECT
    /\ h[n].items # Nil => BaseTypeOf(h[n].type) = TYPE_ARRAY

\* C3: a successful Walk has passed every schema reachable from the root's
\* properties to the visitor, and never the root (stated here for the trees
\* whose schemas hold only what their type declares).
C3_VisitsAllReachable ==
  (walker = "plain" /\ pc = "done" /\ Conforming(heap)) =>
    /\ visits[Root] = 0
    /\ \A n \in Descendants(heap, Root) : visits[n] >= 1

\* C4: every started Walk or ResolveReferences call returns, unless the
\* resolver returned a schema from which the referencing schema is reachable.
C4_Terminates == [](Walking => <>(Finished \/ cycle))

\* C4 witness: a call that resolved references, descended into the
\* referent's properties and returned
C4_Witness ==
  /\ pc = "done" /\ ~cycle /\ calls >= 1
  /\ \E n \in Nodes : visits[n] >= 1 /\ n \notin TreeNodes

\* C5: during one call no schema is passed to the visitor more than once
\* and none is pushed more than once (the resolver never having returned a
\* schema that reaches the referencing one).
C5_AtMostOnce ==
  ~cycle => \A n \in Nodes : visits[n] <= 1 /\ pushes[n] <= 1

\* C6 as stated: ResolveReferences on a tree without references returns
\* success, calls Resolve never and changes no field.
C6_NoOpAndSuccess ==
  (walker = "resolve" /\ Finished /\ RefFree(heap0)) =>
    (pc = "done" /\ calls = 0 /\ heap = heap0)

\* C6 amended: ResolveReferences on a tree without references calls
\* Resolve never and changes no field; the only error it can return is the
\* walker's shape error, and it returns success on the tree an earlier
\* successful ResolveReferences left.
C6_Idempotent ==
  (walker = "resolve" /\ walkNo >= 1 /\ RefFree(heap0)) =>
    /\ calls = 0
    /\ heap = heap0
    /\ ~failed
    /\ pc = "error" => err.kind \in {"type", "items"}
    /\ (Finished /\ prev = "done") => pc = "done"

\* C6 witness: the second call returned success on a tree in which the
\* first call had resolved a reference to an object
C6_Witness ==
  /\ walker = "resolve" /\ walkNo = 2 /\ prev = "done" /\ pc = "done"
  /\ RefFree(heap0)
  /\ \E n \in TreeNodes : heap[n].id = "entity" /\ pushes[n] = 1

\* the schema passes Walk's checks on a property: it is a union, or its base
\* type is determinable and, if "array", it has items
ShapeOK(h, n) ==
  \/ Len(h[n].oneOf) > 0
  \/ /\ BaseTypeOf(h[n].type) # ""
     /\ BaseTypeOf(h[n].type) = TYPE_ARRAY => h[n].items # Nil

\* the schema has base type "array", no items and no alternatives
ArrayWithoutItems(h, n) ==
  /\ Len(h[n].oneOf) = 0
  /\ BaseTypeOf(h[n].type) = TYPE_ARRAY
  /\ h[n].items = Nil

\* the current call walks a tree in which a caller gave Items to the array
\* property an earlier walk had failed on
AfterAddItems == fixed # Nil /\ heap0[fixed].items = ExtraA

InAlternatives(n) == schema = n /\ pc \in {"dispatch", "alts"}

\* C8: a property with a non-empty oneOf never raises a shape error and is
\* never pushed, whatever its type set; once Walk is past it, the visitor has
\* been called exactly once on each alternative and each alternative has
\* been pushed exactly once.
C8_OneOfBypassesType ==
  /\ (pc = "error" /\ errNode # Nil) => Len(heap[errNode].oneOf) = 0
  /\ \A n \in TreeNodes :
       (asProp[n] > 0 /\ Len(heap[n].oneOf) > 0) =>
         /\ pushes[n] = 0
         /\ asProp[n] = 1
         /\ \A i \in 1..Len(heap[n].oneOf) :
              LET a == heap[n].oneOf[i] IN
              IF InAlternatives(n)
              THEN visits[a] <= 1 /\ pushes[a] = visits[a]
              ELSE visits[a] = 1 /\ pushes[a] = 1

\* C8 witness: a walk has succeeded past a union property with two
\* alternatives whose own type is "array" and which has no items
C8_Witness ==
  /\ pc = "done"
  /\ \E n \in TreeNodes :
       /\ asProp[n] = 1 /\ Len(heap[n].oneOf) = 2
       /\ heap[n].type = <<"array">> /\ heap[n].items = Nil
       /\ \A i \in 1..2 : visits[heap[n].oneOf[i]] = 1

\* the documents C9 names, with the base type it states for each
C9Cases ==
  { <<[type |-> JString("string"), nullable |-> [k |-> "absent"]], "string">>,
    <<[type |-> JStrings(<<"string", "null">>), nullable |-> [k |-> "absent"]], "string">>,
    <<[type |-> JString("string"), nullable |-> [k |-> "bool", v |-> TRUE]], "string">>,
    <<[type |-> JStrings(<<"null">>), nullable |-> [k |-> "absent"]], "null">>,
    <<[type |-> JStrings(<<"string", "number">>), nullable |-> [k |-> "absent"]], "">> }

\* C9: each of the named documents parses, and BaseType() of the parsed
\* schema is the stated one.
C9_BaseTypeOfParsed ==
  \A c \in C9Cases :
    (tin = c[1] /\ tphase # "input") =>
      /\ tset.ok
      /\ tphase # "built" => tbase = c[2]

\* C10: a one-element type set is serialized as a JSON string and a longer
\* one as an array, and the serialized schema parses back to a type set with
\* the same members (stated for type sets that list no tag twice).
C10_TypeRoundTrip ==
  (/\ tphase = "reparsed"
   /\ Len(tset.type) >= 1
   /\ Cardinality(SeqRange(tset.type)) = Len(tset.type)) =>
    /\ Len(tset.type) = 1 => tout.k = "string"
    /\ Len(tset.type) > 1 => tout.k = "array"
    /\ tback.ok
    /\ SeqRange(tback.type) = SeqRange(tset.type)

\* the schemas the resolver held when the calls started
HeldByResolver ==
  Closure(heap0, {resolver[r] : r \in DOMAIN resolver} \ {Nil})

\* the schemas of the graph under root n when the calls started
GraphOf(n) == Closure(heap0, {n})

\* C11: two concurrent ResolveReferences calls on roots that shared no
\* schema, with one resolver, never assign to the same schema: a call assigns
\* only to schemas of the graph that was under its own root, never to one the
\* resolver held or one that was under the other root.
C11_DisjointWrites ==
  (GraphOf(RootA) \cap GraphOf(RootB) = {}) =>
    /\ written["a"] \cap written["b"] = {}
    /\ \A c \in Calls :
         /\ written[c] \subseteq GraphOf(RootOf(c))
         /\ written[c] \cap HeldByResolver = {}
         /\ \A d \in Calls \ {c} : written[c] \cap GraphOf(RootOf(d)) = {}

\* a step of the current ResolveReferences call in which the visitor ran
VisitorStep ==
  /\ walker' = "resolve"
  /\ walkNo' = walkNo
  /\ (heap' # heap \/ visits' # visits \/ lastVisit' # lastVisit)

\* C12: a visitor call on a schema with a non-empty ref that the resolver
\* knows empties the ref and makes id, type set, properties and items those
\* of the referent, leaves format and oneOf as they were and writes no other
\* schema; a visitor call on a schema with an empty ref changes nothing and
\* does not call the resolver.
C12_ResolveFrame ==
  [][VisitorStep =>
       LET s == lastVisit'
           ref == heap[s].ref
           refSchema == Resolve(ref)
       IN IF ref = "" THEN heap' = heap /\ calls' = calls
          ELSE refSchema # Nil =>
                 /\ heap'[s].ref = ""
                 /\ heap'[s].id = heap[refSchema].id
                 /\ heap'[s].type = heap[refSchema].type
                 /\ heap'[s].props = heap[refSchema].props
                 /\ heap'[s].items = heap[refSchema].items
                 /\ heap'[s].format = heap[s].format
                 /\ heap'[s].oneOf = heap[s].oneOf
                 /\ \A n \in Nodes \ {s} : heap'[n] = heap[n]
                 /\ calls' = Bump(calls)
                 /\ ~failed']_vars

\* C12 witness: the latest visitor call resolved a reference held by a
\* schema with alternatives, which kept them and its empty format while the
\* referent's format is not empty; an earlier call was on a schema with an
\* empty ref
C12_Witness ==
  /\ walker = "resolve" /\ walkNo = 1 /\ lastVisit \in TreeNodes
  /\ heap0[lastVisit].ref = RefX /\ heap[lastVisit].ref = ""
  /\ heap[lastVisit].id = "entity" /\ heap[lastVisit].type = heap[ExtraA].type
  /\ Len(heap[lastVisit].oneOf) > 0 /\ heap[lastVisit].oneOf = heap0[lastVisit].oneOf
  /\ heap[lastVisit].format = "" /\ heap[ExtraA].format = "date-time"
  /\ \E n \in TreeNodes : visits[n] = 1 /\ heap0[n].ref = "" /\ heap[n] = heap0[n]

\* schema n was a property carrying only a reference the resolver knows when
\* the call started, and Walk has called the visitor on it and gone through
\* its checks on it
RefOnlyPropertyDone(n) ==
  /\ heap0[n].ref # "" /\ Resolve(heap0[n].ref) # Nil
  /\ heap0[n].type = <<>> /\ Len(heap0[n].oneOf) = 0
  /\ asProp[n] >= 1
  /\ ~(pc = "dispatch" /\ schema = n)

\* C13: Walk calls the visitor on a property's schema before it reads the
\* schema's oneOf, base type, items or properties: the schema Walk is
\* checking is the one just visited, and every schema pushed or waiting on
\* the stack, the root apart, has been visited.  So in ResolveReferences a
\* property carrying only a ref is checked with its referent's type set: it
\* raises the base-type error exactly when the referent's base type is not
\* determinable, and otherwise it is pushed when the referent is an object,
\* its items are visited when the referent is an array with items, and it
\* is skipped when the referent is a scalar.
C13_VisitBeforeRead ==
  walker = "resolve" =>
    /\ \A n \in Nodes \ {Root} : pushes[n] > 0 => visits[n] > 0
    /\ \A i \in 1..Len(stack) : stack[i].Node # Root => visits[stack[i].Node] > 0
    /\ pc = "dispatch" => (lastVisit = schema /\ asProp[schema] > 0)
    /\ pc = "alts" => asProp[schema] > 0
    /\ \A n \in Nodes :
         RefOnlyPropertyDone(n) =>
           LET refSchema == Resolve(heap0[n].ref)
               referentType == BaseType(heap0, refSchema)
               typeError == pc = "error" /\ err.kind = "type" /\ errNode = n
               itemsError == pc = "error" /\ err.kind = "items" /\ errNode = n
           IN /\ heap[n].ref = ""
              /\ heap[n].type = heap0[refSchema].type
              /\ typeError <=> referentType = ""
              /\ referentType = TYPE_OBJECT => (pushes[n] >= 1 /\ ~itemsError)
              /\ referentType = TYPE_ARRAY =>
                   /\ pushes[n] = 0
                   /\ IF heap0[refSchema].items = Nil THEN itemsError
                      ELSE /\ ~itemsError
                           /\ visits[heap0[refSchema].items] >= 1
                           /\ failed \/ pushes[heap0[refSchema].items] >= 1
              /\ referentType \notin {"", TYPE_OBJECT, TYPE_ARRAY} =>
                   (pushes[n] = 0 /\ ~itemsError)

\* C13 witness: a successful call went past a property that carried only a
\* ref to an object: the property was pushed and the referent's property was
\* visited
C13_Witness ==
  /\ walker = "resolve" /\ walkNo = 1 /\ pc = "done"
  /\ BaseType(heap0, ExtraA) = TYPE_OBJECT
  /\ \E n \in TreeNodes :
       /\ RefOnlyPropertyDone(n)
       /\ asProp[n] = 1 /\ pushes[n] = 1
       /\ heap[n].props = heap0[ExtraA].props
       /\ visits[ExtraB] >= 1

\* C14: once a Metadata call for a record type has returned a schema, the
\* cache holds that schema under that record type ever after, and every
\* later Metadata call for the record type returns it without a request to
\* NetSuite, whatever calls for other record types came in between.
C14_StableMemo ==
  /\ \A r \in DOMAIN returned :
       r \in DOMAIN metadataCache /\ metadataCache[r] = returned[r]
  /\ (lastCall.repeat /\ ~panicked) =>
       /\ lastCall.result = returned[lastCall.recordType]
       /\ lastCall.requests = 0

====
